---- MODULE Spec2Model ----
(***************************************************************************)
(* Booking system: the profiles / bookings / notifications tables with     *)
(* their row-level-security policies, the two migrations that make them,   *)
(* the trigger that provisions an account for each new identity, the       *)
(* get_admin_conversion_stats aggregate, the role router, and the          *)
(* dashboard handlers that issue updates against the tables.               *)
(*                                                                         *)
(* Every request of the application reaches the database as the            *)
(* "authenticated" role with auth.uid() set to the signed-in user, so      *)
(* every statement is filtered by the policies below.  PostgreSQL applies  *)
(* them as follows (CREATE POLICY, "Policies Applied by Command Type"):    *)
(*   - permissive policies of one command are OR-ed, no policy = no row;   *)
(*   - an UPDATE whose WHERE clause reads a column (here: .eq('id', ...))  *)
(*     also applies the SELECT policies to the existing and the new row;   *)
(*   - an UPDATE policy without WITH CHECK uses its USING expression as    *)
(*     the check of the new row, and a failing check aborts the statement; *)
(*   - a sub-select inside a policy is itself subject to the policies of   *)
(*     the table it reads.                                                 *)
(* Timestamps are whole seconds counted from the moment the row was        *)
(* inserted: the code reads only the difference updated_at - created_at.   *)
(* The free-text columns of bookings and notifications carry no decision   *)
(* of the code modelled here and are left out of the rows.                 *)
(***************************************************************************)
EXTENDS Integers, Sequences, FiniteSets, TLC

VARIABLES auth_users, policies, profiles, bookings, notifications, resp, sessions

vars == <<auth_users, policies, profiles, bookings, notifications, resp, sessions>>

(***************************************************************************)
(* Bounds and value sets                                                   *)
(***************************************************************************)
MaxBookings == 1
MaxNotifications == 2
MaxStatBookings == 5
\* decimal digits kept by a numeric division in the model (PostgreSQL keeps
\* at least 16 significant digits)
NumericDivScale == 6
MaxRoleBookings == 2
MaxNewIdentities == 2
\* decimal digits kept for a number of hours
HoursScale == 2

NULL == "NULL"
\* identities of auth.users; each has a profiles row made by handle_new_user
Users == {"c1", "a1", "s1"}
\* a uuid that is the key of no profiles row
Ghost == "u0"
Roles == {"client", "admin", "super_admin"}
Statuses == {"inquiry", "confirmed", "cleared"}
NotificationTypes == {"booking_inquiry", "booking_confirmed", "booking_cleared", "assignment"}
BookingIds == 1..MaxBookings
NotificationIds == 1..MaxNotifications

\* SQLSTATE of the errors a statement can end with; "" is success
Ok == ""
InsufficientPrivilege == "42501"
CheckViolation == "23514"
ForeignKeyViolation == "23503"
InfiniteRecursion == "42P17"

(***************************************************************************)
(* Migrations: the set of policies in force                                *)
(***************************************************************************)
SchemaPolicies ==
    { "Users can read their own profile",
      "Users can update their own profile",
      "Super admins can read all profiles",
      "Clients can read their own bookings",
      "Anyone can create bookings",
      "Admins can update assigned bookings",
      "Users can read their own notifications",
      "System can create notifications",
      "Users can update their own notifications" }

RecursionFix_KeepsPolicy(pols) == pols

RecursionFix_DropsOwnRowPolicy(pols) == pols \ {"Users can read their own profile"}

\* DROP POLICY IF EXISTS "Super admins can read all profiles" ON profiles
RecursionFix(pols) == pols \ {"Super admins can read all profiles"}

Tables == {"profiles", "bookings", "notifications"}

\* ON <table> FOR <command> of each CREATE POLICY
PolicyTable(p) ==
    CASE p \in { "Users can read their own profile",
                 "Users can update their own profile",
                 "Super admins can read all profiles" } -> "profiles"
      [] p \in { "Clients can read their own bookings",
                 "Anyone can create bookings",
                 "Admins can update assigned bookings" } -> "bookings"
      [] OTHER -> "notifications"

PolicyCommand(p) ==
    CASE p \in { "Users can read their own profile",
                 "Super admins can read all profiles",
                 "Clients can read their own bookings",
                 "Users can read their own notifications" } -> "SELECT"
      [] p \in { "Anyone can create bookings",
                 "System can create notifications" } -> "INSERT"
      [] OTHER -> "UPDATE"

\* the tables the policy's expression selects from
PolicyReads(p) ==
    IF p \in { "Super admins can read all profiles",
               "Clients can read their own bookings",
               "Admins can update assigned bookings" }
    THEN {"profiles"} ELSE {}

\* the tables read by the policies of `tbl` that apply to the commands `cmds`
PolicyReadsOf(pols, tbl, cmds) ==
    UNION { PolicyReads(p) :
              p \in {q \in pols : PolicyTable(q) = tbl /\ PolicyCommand(q) \in cmds} }

\* how many tables deep the evaluation of the policies of `tbl` for `cmds`
\* goes, a read table bringing in its own SELECT policies; more than the
\* number of tables means the expansion never ends
RECURSIVE PolicyDepth(_, _, _, _)
PolicyDepth(pols, tbl, cmds, fuel) ==
    LET reads == PolicyReadsOf(pols, tbl, cmds) IN
    IF reads = {} THEN 0
    ELSE IF fuel = 0 THEN 1
    ELSE LET below == {PolicyDepth(pols, u, {"SELECT"}, fuel - 1) : u \in reads}
         IN  1 + CHOOSE d \in below : \A e \in below : e <= d

\* the SELECT policies whose expression selects from their own table
SelfReadingPolicies ==
    {p \in SchemaPolicies : PolicyCommand(p) = "SELECT" /\ PolicyTable(p) \in PolicyReads(p)}

\* a SELECT policy of profiles that itself selects from profiles never
\* finishes expanding: every statement that needs the SELECT policies of
\* profiles ends with SQLSTATE 42P17
ProfilesPolicyRecursive(pols) ==
    \E p \in pols \cap SelfReadingPolicies : PolicyTable(p) = "profiles"

DuplicateObject == "42710"

\* the objects other than policies that the schema script makes
SchemaObjects ==
    { "table profiles", "table bookings", "table notifications",
      "rls profiles", "rls bookings", "rls notifications",
      "function get_admin_conversion_stats", "function handle_new_user",
      "trigger on_auth_user_created",
      "index idx_bookings_status", "index idx_bookings_assigned_admin",
      "index idx_bookings_event_date", "index idx_notifications_user_id",
      "index idx_notifications_read" }

Statement(do, name) == [do |-> do, name |-> name]

\* the statements of the schema script in the order of the file
SchemaScript ==
    << Statement("create_if_not_exists", "table profiles"),
       Statement("create_if_not_exists", "table bookings"),
       Statement("create_if_not_exists", "table notifications"),
       Statement("enable_rls", "rls profiles"),
       Statement("enable_rls", "rls bookings"),
       Statement("enable_rls", "rls notifications"),
       Statement("create_policy", "Users can read their own profile"),
       Statement("create_policy", "Users can update their own profile"),
       Statement("create_policy", "Super admins can read all profiles"),
       Statement("create_policy", "Clients can read their own bookings"),
       Statement("create_policy", "Anyone can create bookings"),
       Statement("create_policy", "Admins can update assigned bookings"),
       Statement("create_policy", "Users can read their own notifications"),
       Statement("create_policy", "System can create notifications"),
       Statement("create_policy", "Users can update their own notifications"),
       Statement("create_or_replace", "function get_admin_conversion_stats"),
       Statement("create_or_replace", "function handle_new_user"),
       Statement("drop_if_exists", "trigger on_auth_user_created"),
       Statement("create", "trigger on_auth_user_created"),
       Statement("create_if_not_exists", "index idx_bookings_status"),
       Statement("create_if_not_exists", "index idx_bookings_assigned_admin"),
       Statement("create_if_not_exists", "index idx_bookings_event_date"),
       Statement("create_if_not_exists", "index idx_notifications_user_id"),
       Statement("create_if_not_exists", "index idx_notifications_read") >>

\* one statement on the catalog cat = [objects, policies]: CREATE POLICY and
\* CREATE TRIGGER have no guard and fail on an existing name
Execute(st, cat) ==
    CASE st.do \in {"create_if_not_exists", "enable_rls", "create_or_replace"} ->
            [error |-> Ok, objects |-> cat.objects \cup {st.name}, policies |-> cat.policies]
      [] st.do = "drop_if_exists" ->
            [error |-> Ok, objects |-> cat.objects \ {st.name}, policies |-> cat.policies]
      [] st.do = "create" ->
            IF st.name \in cat.objects
            THEN [error |-> DuplicateObject, objects |-> cat.objects, policies |-> cat.policies]
            ELSE [error |-> Ok, objects |-> cat.objects \cup {st.name}, policies |-> cat.policies]
      [] OTHER ->
            IF st.name \in cat.policies
            THEN [error |-> DuplicateObject, objects |-> cat.objects, policies |-> cat.policies]
            ELSE [error |-> Ok, objects |-> cat.objects, policies |-> cat.policies \cup {st.name}]

\* the statements run one after the other, each committed by itself, a
\* failed one skipped; `error` is the first error met
RECURSIVE RunStatements(_, _)
RunStatements(script, cat) ==
    IF script = << >> THEN cat
    ELSE LET r == Execute(Head(script), cat)
             rest == RunStatements(Tail(script), [r EXCEPT !.error = Ok])
         IN  IF r.error # Ok THEN [rest EXCEPT !.error = r.error] ELSE rest

\* the script run in one transaction (atomic: the first error undoes it
\* all) or statement by statement
RunScript(script, cat, atomic) ==
    LET r == RunStatements(script, cat) IN
    IF atomic /\ r.error # Ok THEN [cat EXCEPT !.error = r.error] ELSE r

(***************************************************************************)
(* Row-level policies                                                      *)
(***************************************************************************)
\* "Users can read their own profile": USING (auth.uid() = id)
ProfilesSelectUsing(pols, uid, id) ==
    "Users can read their own profile" \in pols /\ uid = id

\* "Users can update their own profile": USING (auth.uid() = id)
ProfilesUpdateUsing(pols, uid, id) ==
    "Users can update their own profile" \in pols /\ uid = id

\* EXISTS (SELECT 1 FROM profiles WHERE id = auth.uid() AND role IN (...)),
\* evaluated with the caller's rights, so through the SELECT policy of profiles
CallerHasRole(pols, profs, uid, roleset) ==
    \E id \in DOMAIN profs :
        /\ ProfilesSelectUsing(pols, uid, id)
        /\ id = uid
        /\ profs[id].role \in roleset

BookingsSelectUsing_OwnerOnly(pols, profs, uid, row) ==
    "Clients can read their own bookings" \in pols /\ row.client_id = uid

\* "Clients can read their own bookings"
BookingsSelectUsing(pols, profs, uid, row) ==
    /\ "Clients can read their own bookings" \in pols
    /\ \/ row.client_id = uid
       \/ CallerHasRole(pols, profs, uid, {"admin", "super_admin"})

\* "Anyone can create bookings": WITH CHECK (true)
BookingsInsertCheck(pols, profs, uid, row) ==
    "Anyone can create bookings" \in pols /\ TRUE

BookingsUpdateUsing_AnyAdmin(pols, profs, uid, row) ==
    /\ "Admins can update assigned bookings" \in pols
    /\ \/ row.assigned_admin_id = uid
       \/ CallerHasRole(pols, profs, uid, {"admin", "super_admin"})

\* "Admins can update assigned bookings"
BookingsUpdateUsing(pols, profs, uid, row) ==
    /\ "Admins can update assigned bookings" \in pols
    /\ \/ row.assigned_admin_id = uid
       \/ CallerHasRole(pols, profs, uid, {"super_admin"})

NotificationsSelectUsing_Anyone(pols, uid, row) == TRUE

\* "Users can read their own notifications": USING (user_id = auth.uid())
NotificationsSelectUsing(pols, uid, row) ==
    "Users can read their own notifications" \in pols /\ row.user_id = uid

\* "System can create notifications": WITH CHECK (true)
NotificationsInsertCheck(pols, uid, row) ==
    "System can create notifications" \in pols /\ TRUE

\* "Users can update their own notifications": USING (user_id = auth.uid())
NotificationsUpdateUsing(pols, uid, row) ==
    "Users can update their own notifications" \in pols /\ row.user_id = uid

(***************************************************************************)
(* Table constraints                                                       *)
(***************************************************************************)
ProfilesCheck_AnyRole(row) == TRUE

\* role text NOT NULL ... CHECK (role IN ('client', 'admin', 'super_admin'))
ProfilesCheck(row) == row.role \in Roles

BookingsCheck_AnyStatus(row) == TRUE

\* status text NOT NULL ... CHECK (status IN ('inquiry', 'confirmed', 'cleared'))
BookingsCheck(row) == row.status \in Statuses

\* client_id, assigned_admin_id uuid REFERENCES profiles(id)
BookingsForeignKeys(profs, row) ==
    /\ row.client_id \in DOMAIN profs \cup {NULL}
    /\ row.assigned_admin_id \in DOMAIN profs \cup {NULL}

\* type text NOT NULL CHECK (type IN (...)); user_id ... NOT NULL
NotificationsCheck(row) == row.type \in NotificationTypes /\ row.user_id # NULL

\* user_id uuid REFERENCES profiles(id)
NotificationsForeignKeys(profs, row) == row.user_id \in DOMAIN profs

\* now(): the start of the inserting transaction, the same value for both
\* timestamp defaults of one row
now == 0

\* the columns of `patch` replace those of `row`
ApplyPatch(row, patch) ==
    [c \in DOMAIN row |-> IF c \in DOMAIN patch THEN patch[c] ELSE row[c]]

\* a bookings row with the column defaults of CREATE TABLE bookings for the
\* columns the insert leaves out
BookingDefaults ==
    [client_id |-> NULL, status |-> "inquiry", assigned_admin_id |-> NULL,
     total_spend |-> << >>, receipts_uploaded |-> FALSE, receipts_approved |-> FALSE,
     created_at |-> now, updated_at |-> now]

Result(err, n, tbl) == [error |-> err, count |-> n, table |-> tbl]

(***************************************************************************)
(* Account provisioning: the trigger on auth.users                         *)
(*                                                                         *)
(* A nullable value is a tuple, empty for NULL and otherwise holding the   *)
(* value; a text is a sequence of one-character strings.                   *)
(***************************************************************************)
NotNullViolation == "23502"
UniqueViolation == "23505"

\* COALESCE(x, d)
Coalesce(x, d) == IF x = << >> THEN d ELSE x

SplitPart1_FirstCharacter(s) == IF s = << >> THEN << >> ELSE <<Head(s)>>

\* split_part(s, '@', 1): the text before the first '@', all of s when it
\* holds none
RECURSIVE SplitPart1(_)
SplitPart1(s) ==
    IF s = << >> \/ Head(s) = "@" THEN << >>
    ELSE <<Head(s)>> \o SplitPart1(Tail(s))

IsDuplicate_Never(keys, k) == FALSE

\* a PRIMARY KEY or UNIQUE index already holds the key
IsDuplicate(keys, k) == k \in keys

\* the VALUES list of handle_new_user, each column nullable
NewProfileValues(NEW_) ==
    [email |-> NEW_.email,
     name |-> Coalesce(NEW_.raw_user_meta_data.name,
                       IF NEW_.email = << >> THEN << >> ELSE <<SplitPart1(NEW_.email[1])>>),
     role |-> Coalesce(NEW_.raw_user_meta_data.role, <<"client">>)]

\* handle_new_user: INSERT INTO public.profiles (id, email, name, role),
\* subject to NOT NULL, CHECK, PRIMARY KEY (id) and UNIQUE (email)
handle_new_user(profs, NEW_) ==
    LET v == NewProfileValues(NEW_) IN
    IF v.email = << >> \/ v.name = << >>
    THEN Result(NotNullViolation, 0, profs)
    ELSE LET row == [email |-> v.email[1], name |-> v.name[1], role |-> v.role[1]] IN
         IF ~ProfilesCheck(row)
         THEN Result(CheckViolation, 0, profs)
         ELSE IF \/ IsDuplicate(DOMAIN profs, NEW_.id)
                 \/ IsDuplicate({profs[q].email : q \in DOMAIN profs}, row.email)
         THEN Result(UniqueViolation, 0, profs)
         ELSE Result(Ok, 1, (NEW_.id :> row) @@ profs)

\* INSERT INTO auth.users with its trigger on_auth_user_created, one
\* transaction: an error raised by the trigger function undoes the insert
AuthUsersInsert(aus, profs, NEW_) ==
    IF IsDuplicate(aus, NEW_.id)
    THEN [error |-> UniqueViolation, users |-> aus, profiles |-> profs]
    ELSE LET r == handle_new_user(profs, NEW_) IN
         IF r.error # Ok
         THEN [error |-> r.error, users |-> aus, profiles |-> profs]
         ELSE [error |-> Ok, users |-> aus \cup {NEW_.id}, profiles |-> r.table]

\* the identity of a seeded user u, signed up with a role and without a name
SeedUser(u, role) ==
    [id |-> u, email |-> << <<u, "@", "x">> >>,
     raw_user_meta_data |-> [name |-> << >>, role |-> <<role>>]]

\* the accounts of the seeded users, each with the role of `roles`
SeedProfiles(roles) ==
    [u \in DOMAIN roles |-> handle_new_user(<< >>, SeedUser(u, roles[u])).table[u]]

(***************************************************************************)
(* Statements, as PostgreSQL executes them for the caller `uid`            *)
(***************************************************************************)
\* supabase.from('bookings').select('*'): the ids of the rows returned
BookingsSelect(pols, profs, bks, uid) ==
    IF ProfilesPolicyRecursive(pols)
    THEN [error |-> InfiniteRecursion, rows |-> {}]
    ELSE [error |-> Ok,
          rows |-> {id \in DOMAIN bks : BookingsSelectUsing(pols, profs, uid, bks[id])}]

\* supabase.from('bookings').insert([row]); gen_random_uuid() is the next free id
BookingsInsert(pols, profs, bks, uid, row) ==
    IF ~BookingsInsertCheck(pols, profs, uid, row)
    THEN Result(InsufficientPrivilege, 0, bks)
    ELSE IF ~BookingsCheck(row)
    THEN Result(CheckViolation, 0, bks)
    ELSE IF ~BookingsForeignKeys(profs, row)
    THEN Result(ForeignKeyViolation, 0, bks)
    ELSE Result(Ok, 1, bks @@ ((Cardinality(DOMAIN bks) + 1) :> row))

\* supabase.from('bookings').update(patch).eq('id', id)
BookingsUpdate(pols, profs, bks, uid, id, patch) ==
    LET new == ApplyPatch(bks[id], patch) IN
    IF ProfilesPolicyRecursive(pols)
    THEN Result(InfiniteRecursion, 0, bks)
    ELSE IF ~(/\ id \in DOMAIN bks
              /\ BookingsSelectUsing(pols, profs, uid, bks[id])
              /\ BookingsUpdateUsing(pols, profs, uid, bks[id]))
    THEN Result(Ok, 0, bks)
    ELSE IF ~(/\ BookingsUpdateUsing(pols, profs, uid, new)
              /\ BookingsSelectUsing(pols, profs, uid, new))
    THEN Result(InsufficientPrivilege, 0, bks)
    ELSE IF ~BookingsCheck(new)
    THEN Result(CheckViolation, 0, bks)
    ELSE IF ~BookingsForeignKeys(profs, new)
    THEN Result(ForeignKeyViolation, 0, bks)
    ELSE Result(Ok, 1, [bks EXCEPT ![id] = new])

\* supabase.from('profiles').select('*'): the ids of the rows returned
ProfilesSelect(pols, profs, uid) ==
    IF ProfilesPolicyRecursive(pols)
    THEN [error |-> InfiniteRecursion, rows |-> {}]
    ELSE [error |-> Ok, rows |-> {id \in DOMAIN profs : ProfilesSelectUsing(pols, uid, id)}]

\* supabase.from('profiles').update(patch).eq('id', id)
ProfilesUpdate(pols, profs, uid, id, patch) ==
    LET new == ApplyPatch(profs[id], patch) IN
    IF ProfilesPolicyRecursive(pols)
    THEN Result(InfiniteRecursion, 0, profs)
    ELSE IF ~(/\ id \in DOMAIN profs
              /\ ProfilesSelectUsing(pols, uid, id)
              /\ ProfilesUpdateUsing(pols, uid, id))
    THEN Result(Ok, 0, profs)
    ELSE IF ~ProfilesCheck(new)
    THEN Result(CheckViolation, 0, profs)
    ELSE Result(Ok, 1, [profs EXCEPT ![id] = new])

\* supabase.from('notifications').select('*'): the ids of the rows returned
NotificationsSelect(pols, nts, uid) ==
    [error |-> Ok,
     rows |-> {id \in DOMAIN nts : NotificationsSelectUsing(pols, uid, nts[id])}]

\* supabase.from('notifications').insert([row])
NotificationsInsert(pols, profs, nts, uid, row) ==
    IF ~NotificationsInsertCheck(pols, uid, row)
    THEN Result(InsufficientPrivilege, 0, nts)
    ELSE IF ~NotificationsCheck(row)
    THEN Result(CheckViolation, 0, nts)
    ELSE IF ~NotificationsForeignKeys(profs, row)
    THEN Result(ForeignKeyViolation, 0, nts)
    ELSE Result(Ok, 1, nts @@ ((Cardinality(DOMAIN nts) + 1) :> row))

\* supabase.from('notifications').update(patch).eq('id', id)
NotificationsUpdate(pols, profs, nts, uid, id, patch) ==
    LET new == ApplyPatch(nts[id], patch) IN
    IF ~(/\ id \in DOMAIN nts
         /\ NotificationsSelectUsing(pols, uid, nts[id])
         /\ NotificationsUpdateUsing(pols, uid, nts[id]))
    THEN Result(Ok, 0, nts)
    ELSE IF ~(/\ NotificationsUpdateUsing(pols, uid, new)
              /\ NotificationsSelectUsing(pols, uid, new))
    THEN Result(InsufficientPrivilege, 0, nts)
    ELSE IF ~NotificationsCheck(new)
    THEN Result(CheckViolation, 0, nts)
    ELSE IF ~NotificationsForeignKeys(profs, new)
    THEN Result(ForeignKeyViolation, 0, nts)
    ELSE Result(Ok, 1, [nts EXCEPT ![id] = new])

(***************************************************************************)
(* State                                                                   *)
(***************************************************************************)
NoPatch == [none |-> TRUE]

\* what the last request was and what the caller got back
Response(op, uid, id, patch, err, n, rows) ==
    [op |-> op, uid |-> uid, id |-> id, patch |-> patch,
     error |-> err, count |-> n, rows |-> rows]

\* the role each identity was provisioned with (raw_user_meta_data->>'role')
ProvisionedRole == [u \in Users |->
    CASE u = "a1" -> "admin" [] u = "s1" -> "super_admin" [] OTHER -> "client"]

InitDatabase ==
    /\ policies = RecursionFix(SchemaPolicies)
    /\ auth_users = Users
    /\ profiles = SeedProfiles(ProvisionedRole)
    /\ bookings = << >>
    /\ notifications = << >>
    /\ resp = Response("none", NULL, 0, NoPatch, Ok, 0, {})

(***************************************************************************)
(* Requests any authenticated identity can send to the REST endpoint       *)
(***************************************************************************)
ApiInsertBooking(cap, uid, row) ==
    /\ Cardinality(DOMAIN bookings) < cap
    /\ LET r == BookingsInsert(policies, profiles, bookings, uid, row) IN
        /\ bookings' = r.table
        /\ resp' = Response("insert_bookings", uid, 0, row, r.error, r.count, {})
    /\ UNCHANGED <<auth_users, policies, profiles, notifications, sessions>>

ApiUpdateBooking(uid, id, patch) ==
    /\ LET r == BookingsUpdate(policies, profiles, bookings, uid, id, patch) IN
        /\ bookings' = r.table
        /\ resp' = Response("update_bookings", uid, id, patch, r.error, r.count, {})
    /\ UNCHANGED <<auth_users, policies, profiles, notifications, sessions>>

ApiSelectBookings(uid) ==
    /\ LET r == BookingsSelect(policies, profiles, bookings, uid) IN
        resp' = Response("select_bookings", uid, 0, NoPatch, r.error, 0, r.rows)
    /\ UNCHANGED <<auth_users, policies, profiles, bookings, notifications, sessions>>

ApiSelectProfiles(uid) ==
    /\ LET r == ProfilesSelect(policies, profiles, uid) IN
        resp' = Response("select_profiles", uid, 0, NoPatch, r.error, 0, r.rows)
    /\ UNCHANGED <<auth_users, policies, profiles, bookings, notifications, sessions>>

ApiUpdateProfile(uid, id, patch) ==
    /\ LET r == ProfilesUpdate(policies, profiles, uid, id, patch) IN
        /\ profiles' = r.table
        /\ resp' = Response("update_profiles", uid, id, patch, r.error, r.count, {})
    /\ UNCHANGED <<auth_users, policies, bookings, notifications, sessions>>

ApiInsertNotification(uid, row) ==
    /\ Cardinality(DOMAIN notifications) < MaxNotifications
    /\ LET r == NotificationsInsert(policies, profiles, notifications, uid, row) IN
        /\ notifications' = r.table
        /\ resp' = Response("insert_notifications", uid, 0, row, r.error, r.count, {})
    /\ UNCHANGED <<auth_users, policies, profiles, bookings, sessions>>

ApiUpdateNotification(uid, id, patch) ==
    /\ LET r == NotificationsUpdate(policies, profiles, notifications, uid, id, patch) IN
        /\ notifications' = r.table
        /\ resp' = Response("update_notifications", uid, id, patch, r.error, r.count, {})
    /\ UNCHANGED <<auth_users, policies, profiles, bookings, sessions>>

ApiSelectNotifications(uid) ==
    /\ LET r == NotificationsSelect(policies, notifications, uid) IN
        resp' = Response("select_notifications", uid, 0, NoPatch, r.error, 0, r.rows)
    /\ UNCHANGED <<auth_users, policies, profiles, bookings, notifications, sessions>>

\* column values a caller may put into a booking
ApiBookingRows ==
    { [BookingDefaults EXCEPT !.client_id = c, !.status = s, !.assigned_admin_id = a] :
        c \in {NULL, "c1", "a1"}, s \in {"inquiry", "cancelled"}, a \in {NULL, "c1", "a1", Ghost} }

InitApi == InitDatabase /\ sessions = << >>

NextApi ==
    \/ \E uid \in Users, row \in ApiBookingRows : ApiInsertBooking(MaxBookings, uid, row)
    \/ \E uid \in Users, id \in BookingIds, s \in Statuses \cup {"cancelled"} :
          ApiUpdateBooking(uid, id, [status |-> s])
    \/ \E uid \in Users, id \in BookingIds, a \in {NULL, "c1", "a1"} :
          ApiUpdateBooking(uid, id, [assigned_admin_id |-> a])
    \/ \E uid \in Users : ApiSelectBookings(uid)
    \/ \E uid \in Users : ApiSelectProfiles(uid)
    \/ \E uid \in Users, id \in Users, r \in {"admin", "owner"} :
          ApiUpdateProfile(uid, id, [role |-> r])

SpecApi == InitApi /\ [][NextApi]_vars

InitNotif == InitDatabase /\ sessions = << >>

NextNotif ==
    \/ \E uid \in Users, t \in Users \cup {Ghost}, ty \in {"assignment", "reminder"} :
          ApiInsertNotification(uid, [user_id |-> t, type |-> ty, read |-> FALSE])
    \/ \E uid \in Users, id \in NotificationIds, rd \in BOOLEAN :
          ApiUpdateNotification(uid, id, [read |-> rd])
    \/ \E uid \in Users, id \in NotificationIds, t \in Users :
          ApiUpdateNotification(uid, id, [user_id |-> t])
    \/ \E uid \in Users : ApiSelectNotifications(uid)

SpecNotif == InitNotif /\ [][NextNotif]_vars

(***************************************************************************)
(* Migrations run against the live database                                *)
(***************************************************************************)
\* the schema script run again, in one transaction or statement by
\* statement; resp.rows is the set of objects other than policies it leaves
RunSchema(atomic) ==
    /\ LET r == RunScript(SchemaScript,
                          [error |-> Ok, objects |-> SchemaObjects, policies |-> policies],
                          atomic)
       IN  /\ policies' = r.policies
           /\ resp' = Response("run_schema", NULL, 0, NoPatch, r.error, 0, r.objects)
    /\ UNCHANGED <<auth_users, profiles, bookings, notifications, sessions>>

\* the recursion-fix migration
RunRecursionFix ==
    /\ policies' = RecursionFix(policies)
    /\ resp' = Response("run_recursion_fix", NULL, 0, NoPatch, Ok, 0, {})
    /\ UNCHANGED <<auth_users, profiles, bookings, notifications, sessions>>

\* the database right after the schema script, before the recursion fix
InitMigrate ==
    /\ policies = SchemaPolicies
    /\ auth_users = Users
    /\ profiles = SeedProfiles(ProvisionedRole)
    /\ bookings = << >>
    /\ notifications = << >>
    /\ resp = Response("none", NULL, 0, NoPatch, Ok, 0, {})
    /\ sessions = << >>

NextMigrate ==
    \/ \E atomic \in BOOLEAN : RunSchema(atomic)
    \/ RunRecursionFix
    \/ \E uid \in Users, c \in {NULL, "c1"}, a \in {NULL, "a1"} :
          ApiInsertBooking(MaxBookings, uid,
              [BookingDefaults EXCEPT !.client_id = c, !.assigned_admin_id = a])
    \/ \E uid \in Users, id \in BookingIds, st \in {"confirmed", "cleared"} :
          ApiUpdateBooking(uid, id, [status |-> st])
    \/ \E uid \in Users : ApiSelectBookings(uid)
    \/ \E uid \in Users : ApiSelectProfiles(uid)
    \/ \E uid \in Users, id \in Users : ApiUpdateProfile(uid, id, [role |-> "admin"])
    \/ \E uid \in Users : ApiSelectNotifications(uid)

SpecMigrate == InitMigrate /\ [][NextMigrate]_vars

(***************************************************************************)
(* Sign-up: identities created in auth.users                               *)
(***************************************************************************)
\* ids of identities still to be created
NewIds == {"u1", "u2", "u3"}

EmailA == <<"a", "@", "x", ".", "c", "o", "m">>
EmailAB == <<"a", "b", "@", "x", ".", "c", "o", "m">>

\* one insert into auth.users, as issued by a sign-up with these options
CreateIdentity(NEW_) ==
    /\ Cardinality(auth_users) < Cardinality(Users) + MaxNewIdentities
    /\ LET r == AuthUsersInsert(auth_users, profiles, NEW_) IN
        /\ auth_users' = r.users
        /\ profiles' = r.profiles
        /\ resp' = Response("create_identity", NULL, NEW_.id,
                            [email |-> NEW_.email,
                             name |-> NEW_.raw_user_meta_data.name,
                             role |-> NEW_.raw_user_meta_data.role],
                            r.error, IF r.error = Ok THEN 1 ELSE 0, {})
    /\ UNCHANGED <<policies, bookings, notifications, sessions>>

InitAuth == InitDatabase /\ sessions = << >>

NextAuth ==
    \/ \E id \in NewIds \cup {"c1"},
          e \in {<< >>, <<EmailA>>, <<EmailAB>>},
          n \in {<< >>, << <<"Z">> >>},
          r \in {<< >>, <<"admin">>, <<"owner">>} :
          CreateIdentity([id |-> id, email |-> e,
                          raw_user_meta_data |-> [name |-> n, role |-> r]])
    \/ \E uid \in NewIds \cup {"c1"}, r \in {"super_admin", "owner"} :
          /\ uid \in DOMAIN profiles
          /\ ApiUpdateProfile(uid, uid, [role |-> r])

SpecAuth == InitAuth /\ [][NextAuth]_vars

(***************************************************************************)
(* get_admin_conversion_stats                                              *)
(***************************************************************************)
RECURSIVE Pow10(_)
Pow10(n) == IF n = 0 THEN 1 ELSE 10 * Pow10(n - 1)

\* a::numeric / b::numeric for a >= 0, b > 0: the quotient with
\* NumericDivScale decimal digits, the last one rounded, as an integer
\* number of units 10^-NumericDivScale
NumericDiv(a, b) == (2 * a * Pow10(NumericDivScale) + b) \div (2 * b)

NumericRound1_Truncates(x) == x \div Pow10(NumericDivScale - 1)

\* ROUND(x, 1) of a non-negative numeric x given in units 10^-NumericDivScale:
\* rounds half away from zero, the result in tenths
NumericRound1(x) == (x + 5 * Pow10(NumericDivScale - 2)) \div Pow10(NumericDivScale - 1)

\* EXTRACT(EPOCH FROM (b.updated_at - b.created_at)) / 3600 for a row whose
\* updated_at is not before its created_at: hours with HoursScale decimal
\* digits, as an integer number of units 10^-HoursScale
ResponseHours(row) ==
    (2 * (row.updated_at - row.created_at) * Pow10(HoursScale) + 3600) \div (2 * 3600)

RECURSIVE SumResponseHours(_, _)
SumResponseHours(bks, ids) ==
    IF ids = {} THEN 0
    ELSE LET id == CHOOSE x \in ids : TRUE
         IN  ResponseHours(bks[id]) + SumResponseHours(bks, ids \ {id})

\* AVG(...) over the joined bookings of one group: NULL (the empty tuple)
\* when the group holds only the all-null row of an unmatched profile
AvgResponseHours(bks, joined) ==
    IF joined = {} THEN << >>
    ELSE << (2 * SumResponseHours(bks, joined) + Cardinality(joined))
               \div (2 * Cardinality(joined)) >>

AvgResponseTime_NoCoalesce(bks, joined) == AvgResponseHours(bks, joined)

\* COALESCE(AVG(...), 0)::numeric
AvgResponseTime(bks, joined) == Coalesce(AvgResponseHours(bks, joined), <<0>>)

CountFilter_Unfiltered(bks, joined, sts) == Cardinality(joined)

\* COUNT(b.id) FILTER (WHERE b.status IN sts) over the joined bookings
CountFilter(bks, joined, sts) ==
    Cardinality({id \in joined : bks[id].status \in sts})

\* the row of one profile p of the grouped LEFT JOIN; conversion_rate is in
\* tenths of a percent (750 is 75.0), avg_response_time a one-element tuple
\* holding hours in units 10^-HoursScale, or the empty tuple for NULL
AdminStatsRow(bks, p) ==
    LET joined == {id \in DOMAIN bks : bks[id].assigned_admin_id = p}
        converted == CountFilter(bks, joined, {"confirmed", "cleared"})
    IN  [admin_id |-> p,
         inquiries_assigned |-> CountFilter(bks, joined, {"inquiry"}),
         confirmed_bookings |-> converted,
         conversion_rate |->
            IF Cardinality(joined) > 0
            THEN NumericRound1(NumericDiv(converted, Cardinality(joined)) * 100)
            ELSE 0,
         avg_response_time |-> AvgResponseTime(bks, joined)]

StatsWhere_Staff(profs, p) == profs[p].role \in {"admin", "super_admin"}

\* WHERE p.role = 'admin'
StatsWhere(profs, p) == profs[p].role = "admin"

\* one row per group of GROUP BY p.id, p.name, p.admin_color; p.id is the
\* primary key, so a group is one profile
get_admin_conversion_stats(profs, bks) ==
    {AdminStatsRow(bks, p) : p \in {q \in DOMAIN profs : StatsWhere(profs, q)}}

DefinerView_Invoker(pols, profs, bks, uid) ==
    [profiles |-> [id \in {x \in DOMAIN profs : ProfilesSelectUsing(pols, uid, x)} |-> profs[id]],
     bookings |-> [id \in {x \in DOMAIN bks : BookingsSelectUsing(pols, profs, uid, bks[x])}
                     |-> bks[id]]]

\* SECURITY DEFINER: the body runs with the rights of the function's owner,
\* who owns the tables, so no row-level policy filters what it reads
DefinerView(pols, profs, bks, uid) == [profiles |-> profs, bookings |-> bks]

\* supabase.rpc('get_admin_conversion_stats')
RpcStats(uid) ==
    /\ LET v == DefinerView(policies, profiles, bookings, uid) IN
        resp' = Response("rpc_stats", uid, 0, NoPatch, Ok, 0,
                         get_admin_conversion_stats(v.profiles, v.bookings))
    /\ UNCHANGED <<auth_users, policies, profiles, bookings, notifications, sessions>>

\* bookings tables of up to MaxStatBookings rows, each in any status and
\* assigned to the admin, to the super_admin or to nobody
StatRows ==
    { [BookingDefaults EXCEPT !.status = s, !.assigned_admin_id = a] :
        s \in Statuses, a \in {NULL, "a1", "s1"} }

InitStats ==
    /\ policies = RecursionFix(SchemaPolicies)
    /\ auth_users = Users
    /\ profiles = SeedProfiles(ProvisionedRole)
    /\ \E n \in 0..MaxStatBookings : bookings \in [1..n -> StatRows]
    /\ notifications = << >>
    /\ resp = Response("none", NULL, 0, NoPatch, Ok, 0, {})
    /\ sessions = << >>

NextStats == \E uid \in Users : RpcStats(uid)

SpecStats == InitStats /\ [][NextStats]_vars

\* the same aggregate over accounts of any role: up to MaxRoleBookings
\* bookings, each in any status, assigned to any account or to nobody, and
\* last updated at its creation or an hour and a half later
RoleStatRows ==
    { [BookingDefaults EXCEPT !.status = s, !.assigned_admin_id = a, !.updated_at = u] :
        s \in Statuses, a \in Users \cup {NULL}, u \in {now, now + 5400} }

InitStatsRoles ==
    /\ policies = RecursionFix(SchemaPolicies)
    /\ auth_users = Users
    /\ \E roles \in [Users -> Roles] : profiles = SeedProfiles(roles)
    /\ \E n \in 0..MaxRoleBookings : bookings \in [1..n -> RoleStatRows]
    /\ notifications = << >>
    /\ resp = Response("none", NULL, 0, NoPatch, Ok, 0, {})
    /\ sessions = << >>

SpecStatsRoles == InitStatsRoles /\ [][NextStats]_vars

(***************************************************************************)
(* The application: one browser session per signed-in user                 *)
(***************************************************************************)
Sessions == {"t1", "t2", "t3"}

\* the user each session is signed in as
SessionUser == [t \in Sessions |->
    CASE t = "t1" -> "s1" [] t = "t2" -> "a1" [] OTHER -> "c1"]

\* useAuth().user and the state of a freshly mounted AdminDashboard, whose
\* effect has called fetchBookings
InitSession(t) ==
    [user |-> SessionUser[t], role |-> ProvisionedRole[SessionUser[t]],
     activeTab |-> "inquiry", loading |-> TRUE, bookings |-> << >>]

\* the route guards: /booking admits clients, /admin admins, and the
\* super-admin dashboard embeds AdminDashboard
ShowsAdminDashboard(t) == sessions[t].role \in {"admin", "super_admin"}

ShowsBookingForm(t) == sessions[t].role = "client"

\* BookingForm.onSubmit: inserts the form fields with status inquiry and both
\* receipt flags false; client_id and assigned_admin_id are not sent
onSubmit(t, ok) ==
    /\ ShowsBookingForm(t)
    /\ Cardinality(DOMAIN bookings) < MaxBookings
    /\ LET row == [BookingDefaults EXCEPT !.status = "inquiry",
                                         !.receipts_uploaded = FALSE,
                                         !.receipts_approved = FALSE]
           r == IF ok THEN BookingsInsert(policies, profiles, bookings, sessions[t].user, row)
                      ELSE Result("network", 0, bookings)
       IN  /\ bookings' = r.table
           /\ resp' = Response("insert_bookings", sessions[t].user, 0, row, r.error, r.count, {})
    /\ UNCHANGED <<auth_users, policies, profiles, notifications, sessions>>

\* setActiveTab(tab.key); the effect on [activeTab, user] calls fetchBookings,
\* which sets loading.  One fetch is in flight per session at a time.
setActiveTab(t, tab) ==
    /\ ShowsAdminDashboard(t)
    /\ ~sessions[t].loading
    /\ tab # sessions[t].activeTab
    /\ sessions' = [sessions EXCEPT ![t].activeTab = tab, ![t].loading = TRUE]
    /\ resp' = Response("none", sessions[t].user, 0, NoPatch, Ok, 0, {})
    /\ UNCHANGED <<auth_users, policies, profiles, bookings, notifications>>

\* fetchBookings: the rows with status = activeTab, for role admin only those
\* assigned to the user; a failed request keeps the old list
fetchBookings(t, ok) ==
    /\ ShowsAdminDashboard(t)
    /\ sessions[t].loading
    /\ LET s == sessions[t]
           r == IF ok THEN BookingsSelect(policies, profiles, bookings, s.user)
                      ELSE [error |-> "network", rows |-> {}]
           data == {id \in r.rows :
                      /\ bookings[id].status = s.activeTab
                      /\ s.role = "admin" => bookings[id].assigned_admin_id = s.user}
       IN  /\ sessions' = [sessions EXCEPT
                  ![t].bookings = IF r.error = Ok THEN [id \in data |-> bookings[id].status]
                                                  ELSE s.bookings,
                  ![t].loading = FALSE]
           /\ resp' = Response("select_bookings", s.user, 0, NoPatch, r.error, 0, data)
    /\ UNCHANGED <<auth_users, policies, profiles, bookings, notifications>>

\* the buttons rendered for a listed booking
ConfirmShown(t, id) ==
    /\ ShowsAdminDashboard(t)
    /\ ~sessions[t].loading
    /\ id \in DOMAIN sessions[t].bookings
    /\ sessions[t].bookings[id] = "inquiry"
    /\ sessions[t].role # "client"

UploadShown(t, id) ==
    /\ ShowsAdminDashboard(t)
    /\ ~sessions[t].loading
    /\ id \in DOMAIN sessions[t].bookings
    /\ sessions[t].bookings[id] = "confirmed"
    /\ sessions[t].role # "client"

ClearShown_AnyListed(t, id) ==
    /\ ShowsAdminDashboard(t)
    /\ ~sessions[t].loading
    /\ id \in DOMAIN sessions[t].bookings
    /\ sessions[t].role = "super_admin"

ClearShown_AnyStaff(t, id) == UploadShown(t, id)

ClearShown(t, id) == UploadShown(t, id) /\ sessions[t].role = "super_admin"

DashboardUpdate_RefetchAlways(t, id, patch, ok) ==
    LET r == IF ok THEN BookingsUpdate(policies, profiles, bookings, sessions[t].user, id, patch)
                   ELSE Result("network", 0, bookings)
    IN  /\ bookings' = r.table
        /\ sessions' = [sessions EXCEPT ![t].loading = TRUE]
        /\ resp' = Response("update_bookings", sessions[t].user, id, patch, r.error, r.count, {})
        /\ UNCHANGED <<auth_users, policies, profiles, notifications>>

\* one update request of a dashboard and what follows it: on an error the
\* handler only reports it, otherwise it calls its fetch again
DashboardUpdate(t, id, patch, ok) ==
    LET r == IF ok THEN BookingsUpdate(policies, profiles, bookings, sessions[t].user, id, patch)
                   ELSE Result("network", 0, bookings)
    IN  /\ bookings' = r.table
        /\ sessions' = [sessions EXCEPT ![t].loading = (r.error = Ok)]
        /\ resp' = Response("update_bookings", sessions[t].user, id, patch, r.error, r.count, {})
        /\ UNCHANGED <<auth_users, policies, profiles, notifications>>

\* new Date().toISOString() in the browser, an hour after the row was made
DateNow == now + 3600

\* updateBookingStatus(booking.id, 'confirmed' | 'cleared')
updateBookingStatus(t, id, newStatus, ok) ==
    /\ \/ ConfirmShown(t, id) /\ newStatus = "confirmed"
       \/ ClearShown(t, id) /\ newStatus = "cleared"
    /\ DashboardUpdate(t, id, [status |-> newStatus, updated_at |-> DateNow], ok)

\* what parseFloat makes of the prompt's text: an amount, or NaN, which is
\* sent as null
SpendInputs == {<<100>>, << >>}

uploadReceipts_AlsoApproves(t, id, totalSpend, ok) ==
    /\ UploadShown(t, id)
    /\ DashboardUpdate(t, id, [receipts_uploaded |-> TRUE, receipts_approved |-> TRUE,
                               total_spend |-> totalSpend, updated_at |-> DateNow], ok)

\* uploadReceipts(booking.id, parseFloat(totalSpend))
uploadReceipts(t, id, totalSpend, ok) ==
    /\ UploadShown(t, id)
    /\ DashboardUpdate(t, id, [receipts_uploaded |-> TRUE, total_spend |-> totalSpend,
                               updated_at |-> DateNow], ok)

Init ==
    /\ InitDatabase
    /\ sessions = [t \in Sessions |-> InitSession(t)]

Next ==
    \/ \E t \in Sessions, ok \in BOOLEAN : onSubmit(t, ok)
    \/ \E uid \in {"c1"} :
          ApiInsertBooking(MaxBookings, uid,
              [BookingDefaults EXCEPT !.client_id = uid, !.assigned_admin_id = "a1"])
    \/ \E t \in Sessions, tab \in Statuses : setActiveTab(t, tab)
    \/ \E t \in Sessions, ok \in BOOLEAN : fetchBookings(t, ok)
    \/ \E t \in Sessions, id \in BookingIds, st \in {"confirmed", "cleared"}, ok \in BOOLEAN :
          updateBookingStatus(t, id, st, ok)
    \/ \E t \in Sessions, id \in BookingIds, sp \in SpendInputs, ok \in BOOLEAN :
          uploadReceipts(t, id, sp, ok)

Spec == Init /\ [][Next]_vars

(***************************************************************************)
(* The Super Admin dashboard                                               *)
(*                                                                         *)
(* A SuperAdminDashboard is a view of its own (a browser tab on            *)
(* /super-admin showing the overview); the AdminDashboard it embeds under  *)
(* "Manage Bookings" is the AdminDashboard instance of session t1.  The    *)
(* three requests of fetchData are taken as one step.                      *)
(***************************************************************************)
SuperSessions == {"t4"}

\* the user the Super Admin dashboard is signed in as
SuperSessionUser == [t \in SuperSessions |-> "s1"]

\* useState of a freshly mounted SuperAdminDashboard, whose effect has called
\* fetchData
InitSuperSession(t) ==
    [user |-> SuperSessionUser[t], role |-> ProvisionedRole[SuperSessionUser[t]],
     activeTab |-> "overview", loading |-> TRUE,
     adminStats |-> {}, unassignedInquiries |-> {}, admins |-> << >>]

\* the route guard of /super-admin
ShowsSuperAdminDashboard(t) == sessions[t].role = "super_admin"

\* setActiveTab('overview' | 'manage') of the Super Admin dashboard; no effect
\* depends on the tab
setSuperTab(t, tab) ==
    /\ ShowsSuperAdminDashboard(t)
    /\ ~sessions[t].loading
    /\ tab # sessions[t].activeTab
    /\ sessions' = [sessions EXCEPT ![t].activeTab = tab]
    /\ resp' = Response("none", sessions[t].user, 0, NoPatch, Ok, 0, {})
    /\ UNCHANGED <<auth_users, policies, profiles, bookings, notifications>>

\* .from('profiles').select('*').in('role', ['admin', 'super_admin']): the
\* role of each account returned
FetchAdmins(pols, profs, uid) ==
    LET r == ProfilesSelect(pols, profs, uid) IN
    [error |-> r.error,
     rows |-> [id \in {p \in r.rows : profs[p].role \in {"admin", "super_admin"}}
                  |-> profs[id].role]]

\* .from('bookings').select('*').eq('status', 'inquiry').is('assigned_admin_id', null)
FetchUnassigned(pols, profs, bks, uid) ==
    LET r == BookingsSelect(pols, profs, bks, uid) IN
    [error |-> r.error,
     rows |-> {id \in r.rows : /\ bks[id].status = "inquiry"
                               /\ bks[id].assigned_admin_id = NULL}]

\* fetchData: the statistics, the unassigned inquiries and the admins; the
\* three lists are set only when all three requests succeeded
fetchData(t, ok) ==
    /\ ShowsSuperAdminDashboard(t)
    /\ sessions[t].loading
    /\ LET s == sessions[t]
           v == DefinerView(policies, profiles, bookings, s.user)
           statsData == get_admin_conversion_stats(v.profiles, v.bookings)
           inquiries == FetchUnassigned(policies, profiles, bookings, s.user)
           adminsData == FetchAdmins(policies, profiles, s.user)
           err == IF ~ok THEN "network"
                  ELSE IF inquiries.error # Ok THEN inquiries.error
                  ELSE adminsData.error
       IN  /\ sessions' = [sessions EXCEPT
                  ![t].adminStats = IF err = Ok THEN statsData ELSE s.adminStats,
                  ![t].unassignedInquiries =
                        IF err = Ok THEN inquiries.rows ELSE s.unassignedInquiries,
                  ![t].admins = IF err = Ok THEN adminsData.rows ELSE s.admins,
                  ![t].loading = FALSE]
           /\ resp' = Response("fetch_data", s.user, 0, NoPatch, err, 0,
                               IF err = Ok THEN inquiries.rows ELSE {})
    /\ UNCHANGED <<auth_users, policies, profiles, bookings, notifications>>

\* the options of the "Assign to Admin" select of a listed inquiry
AssignShown(t, inquiryId, adminId) ==
    /\ ShowsSuperAdminDashboard(t)
    /\ ~sessions[t].loading
    /\ sessions[t].activeTab = "overview"
    /\ inquiryId \in sessions[t].unassignedInquiries
    /\ adminId \in DOMAIN sessions[t].admins
    /\ sessions[t].admins[adminId] = "admin"

assignInquiry_AlsoConfirms(t, inquiryId, adminId, ok) ==
    /\ AssignShown(t, inquiryId, adminId)
    /\ DashboardUpdate(t, inquiryId,
                       [assigned_admin_id |-> adminId, status |-> "confirmed",
                        updated_at |-> DateNow], ok)

\* assignInquiry(inquiry.id, e.target.value): on an error the handler only
\* reports it, otherwise it calls fetchData again
assignInquiry(t, inquiryId, adminId, ok) ==
    /\ AssignShown(t, inquiryId, adminId)
    /\ DashboardUpdate(t, inquiryId,
                       [assigned_admin_id |-> adminId, updated_at |-> DateNow], ok)

\* the owner of an account rewrites the role column of its own profile, which
\* "Users can update their own profile" admits
RewriteOwnRole(uid, role) == ApiUpdateProfile(uid, uid, [role |-> role])

\* the sessions acting next to the Super Admin dashboard: the AdminDashboard of
\* the super-admin and the booking form of the client.  The select offers a
\* super-admin no account but its own, so nothing is ever assigned to the
\* admin a1 here and its dashboard stays empty.
ManageSessions == {"t1", "t3"}

InitSuper ==
    /\ InitDatabase
    /\ sessions = [t \in Sessions \cup SuperSessions |->
                      IF t \in SuperSessions THEN InitSuperSession(t) ELSE InitSession(t)]

NextSuper ==
    \/ \E t \in ManageSessions, ok \in BOOLEAN : onSubmit(t, ok)
    \/ \E t \in ManageSessions, tab \in Statuses : setActiveTab(t, tab)
    \/ \E t \in ManageSessions, ok \in BOOLEAN : fetchBookings(t, ok)
    \/ \E t \in ManageSessions, id \in BookingIds, st \in {"confirmed", "cleared"}, ok \in BOOLEAN :
          updateBookingStatus(t, id, st, ok)
    \/ \E t \in ManageSessions, id \in BookingIds, sp \in SpendInputs, ok \in BOOLEAN :
          uploadReceipts(t, id, sp, ok)
    \/ \E t \in SuperSessions, tab \in {"overview", "manage"} : setSuperTab(t, tab)
    \/ \E t \in SuperSessions, ok \in BOOLEAN : fetchData(t, ok)
    \/ \E t \in SuperSessions, id \in BookingIds, a \in Users, ok \in BOOLEAN :
          assignInquiry(t, id, a, ok)
    \/ \E uid \in {"s1"}, r \in {"admin", "super_admin"} : RewriteOwnRole(uid, r)

SpecSuper == InitSuper /\ [][NextSuper]_vars

\* the Super Admin dashboard on its own, with more submitted inquiries; of the
\* other views only their requests are kept: the form's insert and the
\* update that Confirm Booking sends
MaxAssignBookings == 2

\* the row BookingForm.onSubmit sends
FormRow ==
    [BookingDefaults EXCEPT !.status = "inquiry",
                            !.receipts_uploaded = FALSE,
                            !.receipts_approved = FALSE]

InitAssign ==
    /\ InitDatabase
    /\ sessions = [t \in SuperSessions |-> InitSuperSession(t)]

NextAssign ==
    \/ \E uid \in {"c1"} : ApiInsertBooking(MaxAssignBookings, uid, FormRow)
    \/ \E uid \in {"s1"}, id \in 1..MaxAssignBookings :
          ApiUpdateBooking(uid, id, [status |-> "confirmed", updated_at |-> DateNow])
    \/ \E t \in SuperSessions, tab \in {"overview", "manage"} : setSuperTab(t, tab)
    \/ \E t \in SuperSessions, ok \in BOOLEAN : fetchData(t, ok)
    \/ \E t \in SuperSessions, id \in 1..MaxAssignBookings, a \in Users, ok \in BOOLEAN :
          assignInquiry(t, id, a, ok)
    \/ \E uid \in {"s1"}, r \in {"admin", "super_admin"} : RewriteOwnRole(uid, r)

SpecAssign == InitAssign /\ [][NextAssign]_vars

(***************************************************************************)
(* The router of an authenticated session                                  *)
(***************************************************************************)
\* the locations a user can enter: the root, the three routes, and one that
\* no route matches
Paths == {"/", "/booking", "/admin", "/super-admin", "/calendar"}

getDashboardRoute_NoAdminCase(role) ==
    CASE role = "super_admin" -> "/super-admin"
      [] OTHER -> "/booking"

\* getDashboardRoute: the switch on user.role
getDashboardRoute(role) ==
    CASE role = "super_admin" -> "/super-admin"
      [] role = "admin" -> "/admin"
      [] OTHER -> "/booking"

\* <ProtectedRoute allowedRoles={...}>: its children for an allowed role,
\* none of the three views otherwise
ProtectedRoute(allowedRoles, role, children) ==
    IF role \in allowedRoles THEN children ELSE "denied"

\* the element <Routes> renders for a location
RouteElement(role, path) ==
    CASE path = "/booking" ->
            [navigate |-> FALSE, to |-> path,
             view |-> ProtectedRoute({"client"}, role, "BookingForm")]
      [] path = "/admin" ->
            [navigate |-> FALSE, to |-> path,
             view |-> ProtectedRoute({"admin"}, role, "AdminDashboard")]
      [] path = "/super-admin" ->
            [navigate |-> FALSE, to |-> path,
             view |-> ProtectedRoute({"super_admin"}, role, "SuperAdminDashboard")]
      [] OTHER ->
            [navigate |-> TRUE, to |-> getDashboardRoute(role), view |-> "none"]

\* a signed-in session whose browser is at the root and has not rendered yet
InitRouteSession(t) ==
    [user |-> SessionUser[t], role |-> ProvisionedRole[SessionUser[t]],
     location |-> "/", view |-> "none"]

\* the user enters a location
navigate(t, path) ==
    /\ sessions' = [sessions EXCEPT ![t].location = path, ![t].view = "none"]
    /\ resp' = Response("navigate", sessions[t].user, 0, NoPatch, Ok, 0, {})
    /\ UNCHANGED <<auth_users, policies, profiles, bookings, notifications>>

\* AppRoutes renders for the current location: <Navigate replace> changes
\* the location, a matched route shows its element
AppRoutes(t) ==
    /\ sessions[t].view = "none"
    /\ LET el == RouteElement(sessions[t].role, sessions[t].location) IN
        sessions' = [sessions EXCEPT ![t].location = el.to, ![t].view = el.view]
    /\ resp' = Response("render", sessions[t].user, 0, NoPatch, Ok, 0, {})
    /\ UNCHANGED <<auth_users, policies, profiles, bookings, notifications>>

InitRoutes ==
    /\ InitDatabase
    /\ sessions = [t \in Sessions |-> InitRouteSession(t)]

NextRoutes ==
    \/ \E t \in Sessions, path \in Paths : navigate(t, path)
    \/ \E t \in Sessions : AppRoutes(t)

SpecRoutes == InitRoutes /\ [][NextRoutes]_vars

(***************************************************************************)
(* Claims about the row-level policies and the table constraints           *)
(***************************************************************************)
RoleOf(uid) == profiles[uid].role

\* the patch stores only values the table constraints accept
WellFormed(patch) ==
    /\ "status" \in DOMAIN patch => patch.status \in Statuses
    /\ "assigned_admin_id" \in DOMAIN patch => patch.assigned_admin_id \in DOMAIN profiles \cup {NULL}
    /\ "client_id" \in DOMAIN patch => patch.client_id \in DOMAIN profiles \cup {NULL}
    /\ "role" \in DOMAIN patch => patch.role \in Roles

\* C2: every stored booking has a status among inquiry, confirmed, cleared,
\* and a booking insert or update that carries any other status writes no
\* row and leaves the table as it was.
C2_StatusEnumerated ==
    [][/\ \A id \in DOMAIN bookings' : bookings'[id].status \in Statuses
       /\ ( /\ resp'.op \in {"insert_bookings", "update_bookings"}
            /\ "status" \in DOMAIN resp'.patch
            /\ resp'.patch.status \notin Statuses )
          => (resp'.count = 0 /\ bookings' = bookings)]_vars

\* an update that the policies let through carried a status outside the
\* enumeration and was rejected by the CHECK constraint
C2_Witness ==
    /\ resp.op = "update_bookings"
    /\ "status" \in DOMAIN resp.patch
    /\ resp.patch.status \notin Statuses
    /\ resp.id \in DOMAIN bookings
    /\ resp.error = CheckViolation

\* C3: a select returns a booking row exactly when the caller owns it or the
\* caller's account has role admin or super_admin; a client never reads a
\* booking owned by someone else or by nobody.
C3_SelectVisibility ==
    resp.op = "select_bookings" =>
        /\ \A id \in DOMAIN bookings :
              id \in resp.rows <=>
                  \/ bookings[id].client_id = resp.uid
                  \/ RoleOf(resp.uid) \in {"admin", "super_admin"}
        /\ RoleOf(resp.uid) = "client" =>
              \A id \in resp.rows : bookings[id].client_id = resp.uid

\* a client selected while a booking of another owner was stored, and did
\* not get it
C3_Witness ==
    /\ resp.op = "select_bookings"
    /\ RoleOf(resp.uid) = "client"
    /\ \E id \in DOMAIN bookings :
          /\ bookings[id].client_id \in Users \ {resp.uid}
          /\ id \notin resp.rows

\* C4 as stated: an update of an existing booking with acceptable values
\* takes effect exactly when the caller is the assigned admin or has role
\* super_admin.
C4_UpdateIffAssignedOrSuper ==
    [][( /\ resp'.op = "update_bookings"
         /\ resp'.id \in DOMAIN bookings
         /\ WellFormed(resp'.patch) )
       => ( resp'.count = 1 <=>
              \/ bookings[resp'.id].assigned_admin_id = resp'.uid
              \/ RoleOf(resp'.uid) = "super_admin" )]_vars

\* the caller may read the row: it owns it or has an admin-level role
CanSelect(uid, row) ==
    row.client_id = uid \/ RoleOf(uid) \in {"admin", "super_admin"}

\* C4 amended: an update of an existing booking with acceptable values takes
\* effect exactly when the caller has role super_admin, or the caller is the
\* assigned admin, can select the row, and the updated row is still assigned
\* to the caller; every other update changes nothing.  In particular an admin
\* who is not the assigned admin changes nothing and a super_admin updates
\* any booking, assigned or not.
C4_UpdatePolicy ==
    [][( /\ resp'.op = "update_bookings"
         /\ resp'.id \in DOMAIN bookings
         /\ WellFormed(resp'.patch) )
       => LET old == bookings[resp'.id]
              new == ApplyPatch(old, resp'.patch)
              uid == resp'.uid
          IN  /\ resp'.count = 1 <=>
                    \/ RoleOf(uid) = "super_admin"
                    \/ /\ old.assigned_admin_id = uid
                       /\ CanSelect(uid, old)
                       /\ new.assigned_admin_id = uid
                       /\ CanSelect(uid, new)
              /\ resp'.count = 1 => bookings' = [bookings EXCEPT ![resp'.id] = new]
              /\ resp'.count = 0 => bookings' = bookings
              /\ ( RoleOf(uid) = "admin" /\ old.assigned_admin_id # uid )
                    => ( resp'.count = 0 /\ bookings' = bookings )]_vars

\* the assigned caller, a client that cannot read the row, updated it and
\* zero rows were affected
C4_Witness ==
    /\ resp.op = "update_bookings"
    /\ resp.id \in DOMAIN bookings
    /\ WellFormed(resp.patch)
    /\ bookings[resp.id].assigned_admin_id = resp.uid
    /\ ~CanSelect(resp.uid, bookings[resp.id])
    /\ resp.count = 0
    /\ resp.error = Ok

\* C5: a caller whose account role is client never updates a booking row.
C5_ClientNeverUpdates ==
    [][( resp'.op = "update_bookings" /\ RoleOf(resp'.uid) = "client" )
       => ( resp'.count = 0 /\ bookings' = bookings )]_vars

\* C6: with both migrations applied, a caller of any role selects exactly its
\* own account row, an update of an account row with an acceptable role takes
\* effect exactly when the row is the caller's own, and an update addressed
\* to another identity's row changes nothing.
C6_ProfilesOwnRowOnly ==
    [][/\ resp'.op = "select_profiles" =>
              resp'.rows = {id \in DOMAIN profiles : id = resp'.uid}
       /\ ( resp'.op = "update_profiles" /\ WellFormed(resp'.patch) )
              => /\ resp'.count = 1 <=> resp'.id = resp'.uid
                 /\ \A id \in DOMAIN profiles \ {resp'.uid} : profiles'[id] = profiles[id]]_vars

\* a super_admin addressed an update to another identity's account row and
\* zero rows were affected
C6_Witness ==
    /\ policies = RecursionFix(SchemaPolicies)
    /\ resp.op = "update_profiles"
    /\ RoleOf(resp.uid) = "super_admin"
    /\ resp.id \in DOMAIN profiles \ {resp.uid}
    /\ WellFormed(resp.patch)
    /\ resp.count = 0

\* C7: no request sent through the row-level policies changes the role stored
\* on any account.
C7_RoleImmutable ==
    [][\A u \in DOMAIN profiles : profiles'[u].role = profiles[u].role]_vars

\* C8: every booking whose assigned_admin_id is set references an existing
\* account whose role is admin or super_admin.
C8_AssignedIsAdmin ==
    \A id \in DOMAIN bookings :
        bookings[id].assigned_admin_id # NULL =>
            /\ bookings[id].assigned_admin_id \in DOMAIN profiles
            /\ RoleOf(bookings[id].assigned_admin_id) \in {"admin", "super_admin"}

\* C9: a caller selects exactly the notifications addressed to it, a change
\* of the read flag takes effect exactly when the notification is addressed
\* to the caller, and any update addressed to another account's notification
\* affects zero rows and leaves it, read flag included, unchanged.
C9_NotificationsOwnOnly ==
    [][/\ resp'.op = "select_notifications" =>
              resp'.rows = {id \in DOMAIN notifications : notifications[id].user_id = resp'.uid}
       /\ ( resp'.op = "update_notifications" /\ resp'.id \in DOMAIN notifications )
              => /\ "read" \in DOMAIN resp'.patch =>
                        ( resp'.count = 1 <=> notifications[resp'.id].user_id = resp'.uid )
                 /\ notifications[resp'.id].user_id # resp'.uid =>
                        ( resp'.count = 0 /\ notifications' = notifications )]_vars

\* a caller tried to mark another account's unread notification as read:
\* zero rows, still unread
C9_Witness ==
    /\ resp.op = "update_notifications"
    /\ resp.id \in DOMAIN notifications
    /\ notifications[resp.id].user_id # resp.uid
    /\ "read" \in DOMAIN resp.patch
    /\ resp.patch.read = TRUE
    /\ resp.count = 0
    /\ notifications[resp.id].read = FALSE

(***************************************************************************)
(* Claims about account provisioning                                       *)
(***************************************************************************)
\* p is the part of the text e before its first '@'
IsLocalPart(p, e) ==
    \E k \in 1..Len(e) :
        /\ e[k] = "@"
        /\ \A j \in 1..(k - 1) : e[j] # "@"
        /\ p = SubSeq(e, 1, k - 1)

\* C15: every successful creation of an identity adds exactly one account
\* row, leaving the others as they were, with the identity's id and email,
\* with the metadata name when supplied and otherwise the part of the email
\* before '@', and with the metadata role when supplied and otherwise
\* client; a@x.com without metadata gives name a and role client.
C15_ProvisionedAccount ==
    [][( resp'.op = "create_identity" /\ resp'.error = Ok ) =>
          LET id == resp'.id
              opts == resp'.patch
          IN  /\ id \notin DOMAIN profiles
              /\ DOMAIN profiles' = DOMAIN profiles \cup {id}
              /\ \A q \in DOMAIN profiles : profiles'[q] = profiles[q]
              /\ auth_users' = auth_users \cup {id}
              /\ opts.email = <<profiles'[id].email>>
              /\ IF opts.name # << >>
                 THEN profiles'[id].name = opts.name[1]
                 ELSE IsLocalPart(profiles'[id].name, opts.email[1])
              /\ IF opts.role # << >>
                 THEN profiles'[id].role = opts.role[1]
                 ELSE profiles'[id].role = "client"
              /\ ( opts.email = <<EmailA>> /\ opts.name = << >> /\ opts.role = << >> )
                    => ( profiles'[id].name = <<"a">> /\ profiles'[id].role = "client" )]_vars

\* an identity with email ab@x.com and no metadata was created: its account
\* is named ab and is a client
C15_Witness ==
    /\ resp.op = "create_identity" /\ resp.error = Ok
    /\ resp.patch = [email |-> <<EmailAB>>, name |-> << >>, role |-> << >>]
    /\ resp.id \in DOMAIN profiles
    /\ profiles[resp.id] = [email |-> EmailAB, name |-> <<"a", "b">>, role |-> "client"]

\* C16: creating an identity whose id already has an account row leaves the
\* accounts (and the identities) exactly as they were, so no id ever has a
\* second account row.
C16_ProvisioningIdempotent ==
    [][( resp'.op = "create_identity" /\ resp'.id \in DOMAIN profiles )
          => ( profiles' = profiles /\ auth_users' = auth_users /\ resp'.count = 0 )]_vars

\* an identity was created again under an id that has an account, with
\* another email than the account's: rejected as a duplicate
C16_Witness ==
    /\ resp.op = "create_identity"
    /\ resp.id \in DOMAIN profiles
    /\ resp.patch.email # << >>
    /\ resp.patch.email # <<profiles[resp.id].email>>
    /\ resp.error = UniqueViolation

\* C17: every account's role is one of client, admin, super_admin; creating
\* an identity whose metadata role is another value creates no identity and
\* no account, and an account update that would store another value changes
\* nothing.
C17_RoleEnumerated ==
    [][/\ \A u \in DOMAIN profiles' : profiles'[u].role \in Roles
       /\ ( /\ resp'.op = "create_identity"
            /\ resp'.patch.role # << >>
            /\ resp'.patch.role[1] \notin Roles )
          => ( resp'.error # Ok /\ profiles' = profiles /\ auth_users' = auth_users )
       /\ ( resp'.op = "update_profiles" /\ resp'.patch.role \notin Roles )
          => ( resp'.count = 0 /\ profiles' = profiles )]_vars

\* an identity with a new id, an email and the metadata role owner was
\* refused by the CHECK constraint and has no account
C17_Witness ==
    /\ resp.op = "create_identity"
    /\ resp.patch.role = <<"owner">>
    /\ resp.patch.email # << >>
    /\ resp.error = CheckViolation
    /\ resp.id \notin DOMAIN profiles
    /\ resp.id \notin auth_users

(***************************************************************************)
(* Claims about get_admin_conversion_stats                                 *)
(***************************************************************************)
AssignedTo(p) == {id \in DOMAIN bookings : bookings[id].assigned_admin_id = p}

ConvertedOf(p) == {id \in AssignedTo(p) : bookings[id].status \in {"confirmed", "cleared"}}

\* C10: for an admin with n > 0 assigned bookings of which k are confirmed or
\* cleared, conversion_rate is k / n * 100 rounded to one decimal place (in
\* tenths: the integer r nearest to 1000 k / n, halves rounded up), so it
\* lies between 0 and 100; n = 4, k = 3 gives 75.0.
C10_ConversionRate ==
    resp.op = "rpc_stats" =>
        \A row \in resp.rows :
            LET n == Cardinality(AssignedTo(row.admin_id))
                k == Cardinality(ConvertedOf(row.admin_id))
                r == row.conversion_rate
            IN  n > 0 =>
                  /\ 2 * r * n - n <= 2000 * k
                  /\ 2000 * k < 2 * r * n + n
                  /\ 0 <= r /\ r <= 1000
                  /\ (n = 4 /\ k = 3) => r = 750

\* the stats were computed for an admin with three bookings of which two are
\* converted: 66.666... is reported as 66.7
C10_Witness ==
    /\ resp.op = "rpc_stats"
    /\ \E row \in resp.rows :
          /\ Cardinality(AssignedTo(row.admin_id)) = 3
          /\ Cardinality(ConvertedOf(row.admin_id)) = 2
          /\ row.conversion_rate = 667

StatsRowsOf(u) == {row \in resp.rows : row.admin_id = u}

\* C11: every account with role admin that has no booking assigned to it
\* still gets a row from get_admin_conversion_stats, with inquiries_assigned,
\* confirmed_bookings, conversion_rate and avg_response_time all 0 (a number,
\* not null).
C11_IdleAdminAllZero ==
    resp.op = "rpc_stats" =>
        \A u \in DOMAIN profiles :
            ( RoleOf(u) = "admin" /\ AssignedTo(u) = {} ) =>
                /\ StatsRowsOf(u) # {}
                /\ \A row \in StatsRowsOf(u) :
                      /\ row.inquiries_assigned = 0
                      /\ row.confirmed_bookings = 0
                      /\ row.conversion_rate = 0
                      /\ row.avg_response_time = <<0>>

\* the stats were computed while one admin had no booking and another
\* admin had one that took an hour and a half
C11_Witness ==
    /\ resp.op = "rpc_stats"
    /\ \E u, w \in DOMAIN profiles :
          /\ RoleOf(u) = "admin" /\ AssignedTo(u) = {}
          /\ RoleOf(w) = "admin" /\ AssignedTo(w) # {}
          /\ \E row \in StatsRowsOf(w) : row.avg_response_time = <<150>>

\* C12: get_admin_conversion_stats returns exactly one row for each account
\* whose role is admin and no row for any other account, whatever bookings
\* are assigned to whom.
C12_OneRowPerAdmin ==
    resp.op = "rpc_stats" =>
        /\ \A row \in resp.rows : row.admin_id \in DOMAIN profiles
        /\ \A u \in DOMAIN profiles :
              Cardinality(StatsRowsOf(u)) = IF RoleOf(u) = "admin" THEN 1 ELSE 0

\* the stats were computed while a client and a super_admin each had a
\* booking assigned and there was an admin
C12_Witness ==
    /\ resp.op = "rpc_stats"
    /\ \E c, a, z \in DOMAIN profiles :
          /\ RoleOf(c) = "client" /\ AssignedTo(c) # {}
          /\ RoleOf(z) = "super_admin" /\ AssignedTo(z) # {}
          /\ RoleOf(a) = "admin"
          /\ StatsRowsOf(c) = {} /\ StatsRowsOf(z) = {} /\ StatsRowsOf(a) # {}

\* C13: in every returned row inquiries_assigned is the number of bookings
\* assigned to that admin with status inquiry and confirmed_bookings the
\* number assigned to it with status confirmed or cleared; the two sum to
\* the number of bookings assigned to that admin.
C13_CountsPartitionAssigned ==
    resp.op = "rpc_stats" =>
        \A row \in resp.rows :
            LET mine == AssignedTo(row.admin_id) IN
            /\ row.inquiries_assigned =
                  Cardinality({id \in mine : bookings[id].status = "inquiry"})
            /\ row.confirmed_bookings = Cardinality(ConvertedOf(row.admin_id))
            /\ row.inquiries_assigned + row.confirmed_bookings = Cardinality(mine)

\* an admin with one open inquiry and one cleared booking was counted
C13_Witness ==
    /\ resp.op = "rpc_stats"
    /\ \E row \in resp.rows :
          /\ row.inquiries_assigned = 1
          /\ row.confirmed_bookings = 1
          /\ \E id \in AssignedTo(row.admin_id) : bookings[id].status = "cleared"

\* C14: on an unchanged database two calls of get_admin_conversion_stats
\* return the same rows whoever the callers are.
C14_SameRowsForEveryCaller ==
    [][( /\ resp.op = "rpc_stats" /\ resp'.op = "rpc_stats"
         /\ profiles' = profiles /\ bookings' = bookings )
       => resp'.rows = resp.rows]_vars

\* a client, who can select no booking and no account but its own, got the
\* row of an admin with the admin's booking counted
C14_Witness ==
    /\ resp.op = "rpc_stats"
    /\ RoleOf(resp.uid) = "client"
    /\ \A id \in DOMAIN bookings : ~CanSelect(resp.uid, bookings[id])
    /\ \E row \in resp.rows :
          /\ row.admin_id # resp.uid
          /\ row.inquiries_assigned + row.confirmed_bookings > 0

(***************************************************************************)
(* Claims about the router                                                 *)
(***************************************************************************)
DefaultRoute ==
    [r \in Roles |-> CASE r = "client" -> "/booking"
                       [] r = "admin" -> "/admin"
                       [] OTHER -> "/super-admin"]

ViewOfRole ==
    [r \in Roles |-> CASE r = "client" -> "BookingForm"
                       [] r = "admin" -> "AdminDashboard"
                       [] OTHER -> "SuperAdminDashboard"]

\* C18: what a session shows is decided by its role alone: rendering at the
\* root or at an unmatched location moves the session to its role's route
\* (/booking for client, /admin for admin, /super-admin for super_admin),
\* rendering at its role's route shows its role's view, and rendering at
\* another role's route shows none of the three views.
C18_RouterByRole ==
    [][\A t \in Sessions :
          ( resp'.op = "render" /\ sessions'[t] # sessions[t] ) =>
              LET r == sessions[t].role
                  at == sessions[t].location
              IN  /\ sessions'[t].role = r
                  /\ at \notin {DefaultRoute[q] : q \in Roles} =>
                        /\ sessions'[t].location = DefaultRoute[r]
                        /\ sessions'[t].view = "none"
                  /\ at = DefaultRoute[r] =>
                        /\ sessions'[t].location = at
                        /\ sessions'[t].view = ViewOfRole[r]
                  /\ at \in {DefaultRoute[q] : q \in Roles \ {r}} =>
                        /\ sessions'[t].location = at
                        /\ sessions'[t].view \notin {ViewOfRole[q] : q \in Roles}]_vars

\* an admin session entered an unmatched location and was shown the admin
\* dashboard at /admin, while a client session that entered /admin is shown
\* none of the views
C18_Witness ==
    /\ resp.op = "render"
    /\ \E t, c \in Sessions :
          /\ sessions[t].role = "admin"
          /\ sessions[t].location = "/admin"
          /\ sessions[t].view = "AdminDashboard"
          /\ sessions[c].role = "client"
          /\ sessions[c].location = "/admin"
          /\ sessions[c].view = "denied"

(***************************************************************************)
(* Claims about the migrations                                             *)
(***************************************************************************)
\* C19: on a database that has had both migrations, running the schema
\* script again succeeds and leaves the tables, functions, triggers and
\* indexes and the set of policies exactly as they were.
C19_SchemaRerunIsNoOp ==
    [][( /\ resp'.op = "run_schema"
         /\ "Super admins can read all profiles" \notin policies )
       => ( /\ resp'.error = Ok
            /\ resp'.rows = SchemaObjects
            /\ policies' = policies )]_vars

\* C20: the recursion-fix migration leaves a set of policies in which no
\* policy of a table selects from that table, every policy that selects at
\* all selects from profiles only and that ends the expansion (depth at most
\* one), and the role lookup depends on no account row but the caller's own;
\* no request evaluated under that set ends with the recursion error.
C20_PolicyEvaluationTerminates ==
    [][/\ resp'.op = "run_recursion_fix" =>
            /\ \A p \in policies' :
                  /\ PolicyTable(p) \notin PolicyReads(p)
                  /\ PolicyReads(p) \subseteq {"profiles"}
            /\ \A tbl \in Tables, cmd \in {"SELECT", "INSERT", "UPDATE"} :
                  PolicyDepth(policies', tbl, {cmd}, Cardinality(Tables)) <= 1
            /\ \A uid \in DOMAIN profiles, rs \in SUBSET Roles :
                  CallerHasRole(policies', profiles, uid, rs)
                     <=> CallerHasRole(policies', [q \in {uid} |-> profiles[q]], uid, rs)
       /\ ( /\ policies = RecursionFix(SchemaPolicies)
            /\ resp'.op \in {"select_bookings", "update_bookings", "insert_bookings",
                             "select_profiles", "update_profiles", "select_notifications"} )
          => resp'.error # InfiniteRecursion]_vars

\* after the recursion fix a super_admin selected the bookings, the policy
\* looked its role up in profiles, and the stored booking came back
C20_Witness ==
    /\ policies = RecursionFix(SchemaPolicies)
    /\ resp.op = "select_bookings"
    /\ RoleOf(resp.uid) = "super_admin"
    /\ resp.error = Ok
    /\ resp.rows # {}

(***************************************************************************)
(* Claims about the dashboards                                             *)
(***************************************************************************)
StatusRank(st) == CASE st = "inquiry" -> 0 [] st = "confirmed" -> 1 [] OTHER -> 2

\* C1: under every interleaving of dashboard actions, each on the list the
\* session last fetched, no write replaces a booking's status with an
\* earlier one of inquiry -> confirmed -> cleared.
C1_StatusOnlyAdvances ==
    [][\A id \in DOMAIN bookings :
          StatusRank(bookings'[id].status) >= StatusRank(bookings[id].status)]_vars

\* C21: every booking a client session creates by submitting the booking
\* form is stored with client_id equal to that client, and the client's own
\* select returns it afterwards.
C21_FormBookingOwnedBySubmitter ==
    [][\A t \in Sessions :
          (onSubmit(t, TRUE) /\ resp'.error = Ok) =>
              LET id == Cardinality(DOMAIN bookings') IN
                  /\ bookings'[id].client_id = sessions[t].user
                  /\ id \in BookingsSelect(policies', profiles', bookings',
                                           sessions[t].user).rows]_vars

\* C22: total_spend and receipts_uploaded of a booking change only while its
\* stored status is confirmed and only by a request of a session whose role
\* is admin or super_admin: no uploadReceipts write lands on a booking whose
\* stored status is inquiry or cleared.
C22_ReceiptsOnlyWhileConfirmed ==
    [][\A id \in DOMAIN bookings :
          (\/ bookings'[id].total_spend # bookings[id].total_spend
           \/ bookings'[id].receipts_uploaded # bookings[id].receipts_uploaded) =>
              /\ bookings[id].status = "confirmed"
              /\ RoleOf(resp'.uid) \in {"admin", "super_admin"}]_vars

\* C23: a dashboard action (updateBookingStatus, uploadReceipts,
\* assignInquiry) is one update request; when the request fails the stored
\* bookings are exactly as before and no session has changed, so no fetch is
\* pending and nothing is sent again.
C23_FailedUpdateChangesNothing ==
    [][(resp'.op = "update_bookings" /\ resp'.error # Ok) =>
          /\ bookings' = bookings
          /\ sessions' = sessions]_vars

C23_Witness ==
    /\ resp.op = "update_bookings"
    /\ resp.error # Ok
    /\ "assigned_admin_id" \in DOMAIN resp.patch
    /\ resp.id \in DOMAIN bookings
    /\ \A t \in SuperSessions : ~sessions[t].loading

\* C24: under every interleaving of form submissions and dashboard actions a
\* booking starts as inquiry, no write sets the status of an existing booking
\* to inquiry unless it is inquiry already, and a write makes it cleared only
\* from confirmed (or cleared): never from inquiry directly.
C24_ClearedOnlyAfterConfirmed ==
    [][\A id \in DOMAIN bookings' :
          IF id \in DOMAIN bookings
          THEN /\ bookings'[id].status = "inquiry" => bookings[id].status = "inquiry"
               /\ bookings'[id].status = "cleared" =>
                      bookings[id].status \in {"confirmed", "cleared"}
          ELSE bookings'[id].status = "inquiry"]_vars

C24_Witness ==
    /\ resp.op = "update_bookings"
    /\ resp.count = 1
    /\ resp.patch.status = "cleared"
    /\ bookings[resp.id].status = "cleared"

\* the update a dashboard session sends, by what it asks for
IsStatusUpdate(patch, st) == "status" \in DOMAIN patch /\ patch.status = st

IsReceiptUpload(patch) == "receipts_uploaded" \in DOMAIN patch

ListedAs(t, id, st) ==
    id \in DOMAIN sessions[t].bookings /\ sessions[t].bookings[id] = st

\* C25: every booking update a dashboard issues comes from a session whose
\* role is not client; confirmed -> cleared is issued only by a super_admin
\* session and only for a booking its list shows as confirmed; a session of
\* role admin issues nothing but inquiry -> confirmed for a booking listed as
\* inquiry and the receipt upload for a booking listed as confirmed.
C25_TransitionsByRole ==
    [][resp'.op = "update_bookings" =>
          \E t \in Sessions :
              /\ sessions[t].user = resp'.uid
              /\ sessions[t].role # "client"
              /\ IsStatusUpdate(resp'.patch, "cleared") =>
                    /\ sessions[t].role = "super_admin"
                    /\ ListedAs(t, resp'.id, "confirmed")
              /\ sessions[t].role = "admin" =>
                    \/ /\ IsStatusUpdate(resp'.patch, "confirmed")
                       /\ ListedAs(t, resp'.id, "inquiry")
                    \/ /\ IsReceiptUpload(resp'.patch)
                       /\ ListedAs(t, resp'.id, "confirmed")]_vars

C25_Witness ==
    \E t \in Sessions :
        /\ sessions[t].role = "super_admin"
        /\ sessions[t].loading
        /\ resp.op = "update_bookings"
        /\ resp.uid = sessions[t].user
        /\ IsStatusUpdate(resp.patch, "cleared")
        /\ ListedAs(t, resp.id, "confirmed")

\* the step is the update request of assignInquiry
IsAssignRequest(r) == r.op = "update_bookings" /\ "assigned_admin_id" \in DOMAIN r.patch

\* C26: assignInquiry changes nothing but assigned_admin_id and updated_at of
\* the booking whose id it is given: the other columns of that booking
\* (status, client_id, total_spend, the receipt flags) and every other booking
\* stay as they were, and after a successful update the dashboard is loading,
\* that is fetchData has been called again.
C26_AssignInquiryFrame ==
    [][IsAssignRequest(resp') =>
          /\ DOMAIN bookings' = DOMAIN bookings
          /\ \A id \in DOMAIN bookings :
                IF id = resp'.id
                THEN \A c \in DOMAIN bookings[id] \ {"assigned_admin_id", "updated_at"} :
                        bookings'[id][c] = bookings[id][c]
                ELSE bookings'[id] = bookings[id]
          /\ resp'.error = Ok => \A t \in SuperSessions : sessions'[t].loading
          /\ resp'.error # Ok => \A t \in SuperSessions : ~sessions'[t].loading]_vars

C26_Witness ==
    /\ IsAssignRequest(resp)
    /\ resp.count = 1
    /\ Cardinality(DOMAIN bookings) = 2
    /\ bookings[resp.id].assigned_admin_id = resp.patch.assigned_admin_id
    /\ \E id \in DOMAIN bookings : id # resp.id /\ bookings[id].assigned_admin_id = NULL
    /\ \A t \in SuperSessions : sessions[t].loading

\* C27: under the policies in force after both migrations, the admins list a
\* super_admin session has fetched holds every account whose role is admin
\* or super_admin, so every admin account is an option of the assignment
\* select.
C27_AdminsListComplete ==
    \A t \in SuperSessions :
        (resp.op = "fetch_data" /\ resp.error = Ok /\ policies = RecursionFix(SchemaPolicies)) =>
            DOMAIN sessions[t].admins =
                {p \in DOMAIN profiles : profiles[p].role \in {"admin", "super_admin"}}

\* C28: a booking the form has just inserted has status inquiry, no assigned
\* admin and both receipt flags false, and receipts_approved is false for
\* every booking in every reachable state of the form and the two
\* dashboards, cleared bookings included.
C28_ReceiptsNeverApproved ==
    /\ \A id \in DOMAIN bookings : bookings[id].receipts_approved = FALSE
    /\ (resp.op = "insert_bookings" /\ resp.count = 1) =>
          LET b == bookings[Cardinality(DOMAIN bookings)] IN
              /\ b.status = "inquiry"
              /\ b.assigned_admin_id = NULL
              /\ b.receipts_uploaded = FALSE
              /\ b.receipts_approved = FALSE

C28_Witness ==
    \E id \in DOMAIN bookings :
        /\ bookings[id].status = "cleared"
        /\ bookings[id].assigned_admin_id = "s1"
        /\ bookings[id].receipts_uploaded = TRUE
        /\ bookings[id].receipts_approved = FALSE
====
